---- MODULE Spec2Model ----
(***************************************************************************)
(* Architecture Graph Engine (ai_architect/analysis/graph_engine.py) and   *)
(* its rule validator (ai_architect/analysis/validator.py), and the agent   *)
(* pipeline that runs around them (ai_architect/core_ai/orchestrator.py).  *)
(*                                                                         *)
(* A Python str is a sequence of one-character strings, so that            *)
(* startswith, endswith, `in`, split and join are computed character by    *)
(* character.  A Python dict is a sequence of entries in insertion order;  *)
(* assigning to an existing key keeps the key's position.                  *)
(***************************************************************************)
EXTENDS Integers, Sequences, FiniteSets, TLC

VARIABLES fs, root_path, nodes, built, result, state, pc, agent_calls, report

vars == <<fs, root_path, nodes, built, result, state, pc, agent_calls, report>>

\* Orchestrator.__init__: no state yet and run_pipeline not entered.  pc is the
\* position inside run_pipeline, agent_calls the agents the auditor was asked to run
\* by the current run, report what run_pipeline handed back.
NoReport == [pending |-> TRUE]

OrchestratorInit ==
    /\ state = "None"
    /\ pc = "idle"
    /\ agent_calls = <<>>
    /\ report = NoReport

(***************************************************************************)
(* str                                                                     *)
(***************************************************************************)
Max(a, b) == IF a >= b THEN a ELSE b

StartsWith(s, p) == Len(p) <= Len(s) /\ SubSeq(s, 1, Len(p)) = p

EndsWith(s, p) == Len(p) <= Len(s) /\ SubSeq(s, Len(s) - Len(p) + 1, Len(s)) = p

Contains(s, tok) == \E i \in 1..(Len(s) - Len(tok) + 1) : SubSeq(s, i, i + Len(tok) - 1) = tok

LowerChar(c) ==
    CASE c = "A" -> "a" [] c = "B" -> "b" [] c = "C" -> "c" [] c = "D" -> "d"
      [] c = "I" -> "i" [] c = "M" -> "m" [] c = "T" -> "t" [] OTHER -> c

Lower(s) == [i \in 1..Len(s) |-> LowerChar(s[i])]

RECURSIVE Join(_, _)
Join(parts, sep) ==
    IF parts = <<>> THEN <<>>
    ELSE IF Len(parts) = 1 THEN parts[1]
    ELSE parts[1] \o sep \o Join(Tail(parts), sep)

RECURSIVE Split(_, _)
Split(s, c) ==
    IF \A i \in 1..Len(s) : s[i] # c THEN <<s>>
    ELSE LET k == CHOOSE i \in 1..Len(s) : s[i] = c /\ \A j \in 1..(i - 1) : s[j] # c
         IN  <<SubSeq(s, 1, k - 1)>> \o Split(SubSeq(s, k + 1, Len(s)), c)

Range(f) == {f[i] : i \in DOMAIN f}

Perms(S) == {p \in [1..Cardinality(S) -> S] : \A i, j \in 1..Cardinality(S) : i # j => p[i] # p[j]}

(***************************************************************************)
(* dict: a sequence of records with a field `key`, in insertion order      *)
(***************************************************************************)
Keys(d) == [i \in 1..Len(d) |-> d[i].key]

HasKey(d, k) == \E i \in 1..Len(d) : d[i].key = k

DictGet(d, k) == d[CHOOSE i \in 1..Len(d) : d[i].key = k]

DictPut(d, e) ==
    IF HasKey(d, e.key) THEN [i \in 1..Len(d) |-> IF d[i].key = e.key THEN e ELSE d[i]]
    ELSE Append(d, e)

(***************************************************************************)
(* pathlib.Path: [root, dirs, name]; root and dirs are sequences of path   *)
(* segments, name is the file name with its extension                      *)
(***************************************************************************)
DOT == <<".">>

SLASH == <<"/">>

PY == <<".", "p", "y">>

PathParts(p) == p.root \o p.dirs \o <<p.name>>

PathStr(p) == Join(PathParts(p), SLASH)

Suffix(name) ==
    LET dots == {i \in 1..Len(name) : name[i] = "."}
    IN  IF dots = {} THEN <<>>
        ELSE LET i == CHOOSE m \in dots : \A n \in dots : n <= m
             IN  IF 1 < i /\ i < Len(name) THEN SubSeq(name, i, Len(name)) ELSE <<>>

Stem(name) == SubSeq(name, 1, Len(name) - Len(Suffix(name)))

RelativeStr(p) == Join(p.dirs \o <<p.name>>, SLASH)

resolve_module_name(self_root, file_path) ==
    IF file_path.root = self_root
    THEN Join(file_path.dirs \o <<Stem(file_path.name)>>, DOT)
    ELSE Stem(file_path.name)

ignore_dirs ==
    { <<".", "g", "i", "t">>,
      <<"_", "_", "p", "y", "c", "a", "c", "h", "e", "_", "_">>,
      <<".", "v", "e", "n", "v">>,
      <<"v", "e", "n", "v">>,
      <<"e", "n", "v">>,
      <<"n", "o", "d", "e", "_", "m", "o", "d", "u", "l", "e", "s">>,
      <<"d", "i", "s", "t">>,
      <<"b", "u", "i", "l", "d">> }

(***************************************************************************)
(* ModuleNode and the per-file analysis.  A file of the tree is            *)
(* [dirs, name, fails, body, git]: `fails` says that open() or ast.parse   *)
(* raises, `body` is tree.body as the ast front end delivers it, `git` is  *)
(* the outcome of `git rev-list --count` for the file: a commit count, or  *)
(* -1 (the command cannot be started), -2 (non-zero exit: not a            *)
(* repository), -3 (exit 0 with output that is not a number).              *)
(***************************************************************************)
ModuleNode(file_path, module_name) ==
    [ key |-> module_name,
      file_path |-> file_path,
      module_name |-> module_name,
      classes |-> <<>>,
      functions |-> <<>>,
      imports |-> <<>>,
      ownership |-> "Unknown",
      metrics |-> [dependency_depth |-> 0, callers_count |-> 0, churn |-> 0,
                   fan_in |-> 0, fan_out |-> 0] ]

FileAt(files, p) == {f \in files : f.dirs = p.dirs /\ f.name = p.name}

\* an import resolution that records the stated module name whatever the level
ExtractImportsIgnoringLevel(item, node) ==
    IF item.kind = "import"
    THEN [node EXCEPT !.imports = @ \o item.names]
    ELSE [node EXCEPT !.imports = Append(@, item.module)]

_extract_imports(item, node) ==
    IF item.kind = "import"
    THEN [node EXCEPT !.imports = @ \o item.names]
    ELSE LET base_module == item.module
         IN  IF item.level > 0
             THEN LET parts == Split(node.module_name, ".")
                      prefix_parts == SubSeq(parts, 1, Len(parts) - item.level)
                      all_parts == IF base_module # <<>> THEN Append(prefix_parts, base_module)
                                   ELSE prefix_parts
                  IN  [node EXCEPT !.imports = Append(@, Join(all_parts, DOT))]
             ELSE [node EXCEPT !.imports = Append(@, base_module)]

RECURSIVE ClassMethods(_, _, _)
ClassMethods(item, k, functions) ==
    IF k > Len(item.methods) THEN functions
    ELSE ClassMethods(item, k + 1,
             DictPut(functions, [key |-> item.name \o DOT \o item.methods[k].name,
                                 name |-> item.methods[k].name,
                                 calls |-> item.methods[k].calls]))

AnalyzeItem(item, node) ==
    CASE item.kind = "class" ->
            [node EXCEPT !.functions = ClassMethods(item, 1, @),
                         !.classes = DictPut(@, [key |-> item.name,
                                                 methods |-> [k \in 1..Len(item.methods) |-> item.methods[k].name]])]
      [] item.kind = "func" ->
            [node EXCEPT !.functions = DictPut(@, [key |-> item.name, name |-> item.name,
                                                   calls |-> item.calls])]
      [] OTHER -> _extract_imports(item, node)

RECURSIVE AnalyzeBody(_, _, _)
AnalyzeBody(body, k, node) ==
    IF k > Len(body) THEN node ELSE AnalyzeBody(body, k + 1, AnalyzeItem(body[k], node))

Open(fsys, p) ==
    IF p.root \in DOMAIN fsys /\ fsys[p.root].exists THEN FileAt(fsys[p.root].files, p) ELSE {}

\* a parse failure that leaves the part of the file analysed so far in the node
AnalyzeFileKeepingPartial(node, fsys) ==
    LET found == Open(fsys, node.file_path)
    IN  IF found = {} THEN node
        ELSE LET f == CHOOSE x \in found : TRUE
             IN  IF f.fails THEN (IF f.body = <<>> THEN node ELSE AnalyzeItem(f.body[1], node))
                 ELSE AnalyzeBody(f.body, 1, node)

_analyze_file(node, fsys) ==
    LET found == Open(fsys, node.file_path)
    IN  IF found = {} THEN node
        ELSE LET f == CHOOSE x \in found : TRUE
             IN  IF f.fails THEN node ELSE AnalyzeBody(f.body, 1, node)

(***************************************************************************)
(* Ownership                                                               *)
(***************************************************************************)
Normalize(s) == Lower([i \in 1..Len(s) |-> IF s[i] = "\\" THEN "/" ELSE s[i]])

TokInfrastructure == <<"i", "n", "f", "r", "a", "s", "t", "r", "u", "c", "t", "u", "r", "e">>

TokPersistence == <<"p", "e", "r", "s", "i", "s", "t", "e", "n", "c", "e">>

TokCaching == <<"c", "a", "c", "h", "i", "n", "g">>

TokCore == <<"c", "o", "r", "e">>

TokOrchestrator == <<"o", "r", "c", "h", "e", "s", "t", "r", "a", "t", "o", "r">>

TokApi == <<"a", "p", "i">>

TokInterface == <<"i", "n", "t", "e", "r", "f", "a", "c", "e">>

TokModel == <<"m", "o", "d", "e", "l">>

TokData == <<"d", "a", "t", "a">>

TokTest == <<"t", "e", "s", "t">>

TokBase == <<"B", "a", "s", "e">>

\* an ownership that tests the Interface tokens before the Core tokens
InferOwnershipInterfaceFirst(node) ==
    LET path_str == Normalize(PathStr(node.file_path))
    IN  IF Contains(path_str, TokInfrastructure) \/ Contains(path_str, TokPersistence)
           \/ Contains(path_str, TokCaching)
        THEN "Infrastructure"
        ELSE IF Contains(path_str, TokApi) \/ Contains(path_str, TokInterface) THEN "Interface"
        ELSE IF Contains(path_str, TokCore) \/ Contains(path_str, TokOrchestrator) THEN "Core"
        ELSE IF Contains(path_str, TokModel) \/ Contains(path_str, TokData) THEN "Data"
        ELSE IF Contains(path_str, TokTest) THEN "Test"
        ELSE IF \E i \in 1..Len(node.classes) : Contains(node.classes[i].key, TokBase)
        THEN "Abstractions"
        ELSE "Internal"

_infer_ownership(node) ==
    LET path_str == Normalize(PathStr(node.file_path))
    IN  IF Contains(path_str, TokInfrastructure) \/ Contains(path_str, TokPersistence)
           \/ Contains(path_str, TokCaching)
        THEN "Infrastructure"
        ELSE IF Contains(path_str, TokCore) \/ Contains(path_str, TokOrchestrator) THEN "Core"
        ELSE IF Contains(path_str, TokApi) \/ Contains(path_str, TokInterface) THEN "Interface"
        ELSE IF Contains(path_str, TokModel) \/ Contains(path_str, TokData) THEN "Data"
        ELSE IF Contains(path_str, TokTest) THEN "Test"
        ELSE IF \E i \in 1..Len(node.classes) : Contains(node.classes[i].key, TokBase)
        THEN "Abstractions"
        ELSE "Internal"

_resolve_dependencies(ns) == [i \in 1..Len(ns) |-> [ns[i] EXCEPT !.ownership = _infer_ownership(ns[i])]]

(***************************************************************************)
(* Metrics                                                                 *)
(***************************************************************************)
NoMatch == <<>>

MatchedInternal(ns, imp) ==
    LET hits == {i \in 1..Len(ns) : imp = ns[i].key \/ StartsWith(imp, ns[i].key \o DOT)}
    IN  IF hits = {} THEN NoMatch
        ELSE ns[CHOOSE i \in hits : \A j \in hits : i <= j].key

RECURSIVE _get_depth(_, _, _)
RECURSIVE DepthLoop(_, _, _, _, _)
_get_depth(ns, module_name, visited) ==
    IF module_name \in visited THEN [d |-> 0, v |-> visited]
    ELSE LET v1 == visited \cup {module_name}
         IN  IF ~HasKey(ns, module_name) \/ DictGet(ns, module_name).imports = <<>>
             THEN [d |-> 0, v |-> v1]
             ELSE LET r == DepthLoop(ns, DictGet(ns, module_name).imports, 1, 0, v1)
                  IN  [d |-> 1 + r.d, v |-> r.v]

DepthLoop(ns, imports, k, max_child_depth, visited) ==
    IF k > Len(imports) THEN [d |-> max_child_depth, v |-> visited]
    ELSE LET matched_internal == MatchedInternal(ns, imports[k])
         IN  IF matched_internal = NoMatch
             THEN DepthLoop(ns, imports, k + 1, max_child_depth, visited)
             ELSE LET r == _get_depth(ns, matched_internal, visited)
                  IN  DepthLoop(ns, imports, k + 1, Max(max_child_depth, r.d), r.v)

\* subprocess.run(["git", "rev-list", "--count", "HEAD", path]) for a file whose
\* `git` is g: `count` is int(stdout.strip()), -1 when that raises ValueError
subprocess_run(g) ==
    CASE g >= 0 -> [raised |-> FALSE, returncode |-> 0, count |-> g]
      [] g = -1 -> [raised |-> TRUE, returncode |-> 0, count |-> -1]
      [] g = -2 -> [raised |-> FALSE, returncode |-> 128, count |-> -1]
      [] OTHER  -> [raised |-> FALSE, returncode |-> 0, count |-> -1]

\* a churn that reports a failed call as no commits at all
GetGitChurnZeroOnFailure(fsys, file_path) ==
    LET found == Open(fsys, file_path)
    IN  IF found = {} THEN 0
        ELSE LET f == CHOOSE x \in found : TRUE
                 run == subprocess_run(f.git)
             IN  IF ~run.raised /\ run.returncode = 0 /\ run.count >= 0 THEN run.count ELSE 0

_get_git_churn(fsys, file_path) ==
    LET found == Open(fsys, file_path)
    IN  IF found = {} THEN 1
        ELSE LET f == CHOOSE x \in found : TRUE
                 run == subprocess_run(f.git)
             IN  IF ~run.raised /\ run.returncode = 0 /\ run.count >= 0 THEN run.count ELSE 1

FanOut(ns, node) ==
    Cardinality({k \in 1..Len(node.imports) :
                    \E i \in 1..Len(ns) : StartsWith(node.imports[k], ns[i].key)})

FanIn(ns, node) ==
    Cardinality({i \in 1..Len(ns) :
                    /\ ns[i].key # node.key
                    /\ \E k \in 1..Len(ns[i].imports) : StartsWith(ns[i].imports[k], node.key)})

\* metrics whose depth traversals all share one visited set
RECURSIVE SharedVisitedDepths(_, _, _)
SharedVisitedDepths(ns, k, visited) ==
    IF k > Len(ns) THEN <<>>
    ELSE LET r == _get_depth(ns, ns[k].key, visited)
         IN  <<r.d>> \o SharedVisitedDepths(ns, k + 1, r.v)

CalculateMetricsSharedVisited(ns, fsys) ==
    [i \in 1..Len(ns) |->
        [ns[i] EXCEPT !.metrics =
            [ fan_out |-> FanOut(ns, ns[i]),
              fan_in |-> FanIn(ns, ns[i]),
              callers_count |-> FanIn(ns, ns[i]),
              churn |-> _get_git_churn(fsys, ns[i].file_path),
              dependency_depth |-> SharedVisitedDepths(ns, 1, {})[i] ]]]

_calculate_metrics(ns, fsys) ==
    [i \in 1..Len(ns) |->
        [ns[i] EXCEPT !.metrics =
            [ fan_out |-> FanOut(ns, ns[i]),
              fan_in |-> FanIn(ns, ns[i]),
              callers_count |-> FanIn(ns, ns[i]),
              churn |-> _get_git_churn(fsys, ns[i].file_path),
              dependency_depth |-> _get_depth(ns, ns[i].key, {}).d ]]]

(***************************************************************************)
(* Path.rglob('*.py'): a directory's own matching files, then each of its  *)
(* subdirectories in turn; the order of the entries of one directory is    *)
(* the file system's.  A root that is not a directory yields nothing.      *)
(***************************************************************************)
RECURSIVE Walk(_, _)
RECURSIVE WalkSubs(_, _, _, _)
Walk(files, prefix) ==
    LET own  == {f \in files : f.dirs = prefix /\ EndsWith(f.name, PY)}
        below == {f \in files : Len(f.dirs) > Len(prefix) /\ SubSeq(f.dirs, 1, Len(prefix)) = prefix}
        subs == {f.dirs[Len(prefix) + 1] : f \in below}
    IN  UNION { {po \o rest : po \in Perms(own), rest \in WalkSubs(files, prefix, so, 1)} :
                so \in Perms(subs) }

WalkSubs(files, prefix, so, k) ==
    IF k > Len(so) THEN {<<>>}
    ELSE {a \o b : a \in Walk(files, Append(prefix, so[k])), b \in WalkSubs(files, prefix, so, k + 1)}

rglob(fsys, root) ==
    IF root \in DOMAIN fsys /\ fsys[root].exists
    THEN {[i \in 1..Len(l) |-> [root |-> root, dirs |-> l[i].dirs, name |-> l[i].name]] :
             l \in Walk(fsys[root].files, <<>>)}
    ELSE {<<>>}

(***************************************************************************)
(* GraphEngine.analyze_project                                             *)
(***************************************************************************)
RECURSIVE FirstPass(_, _, _, _)
FirstPass(self_root, listing, k, ns) ==
    IF k > Len(listing) THEN ns
    ELSE IF \E q \in 1..Len(PathParts(listing[k])) : PathParts(listing[k])[q] \in ignore_dirs
    THEN FirstPass(self_root, listing, k + 1, ns)
    ELSE FirstPass(self_root, listing, k + 1,
             DictPut(ns, ModuleNode(listing[k], resolve_module_name(self_root, listing[k]))))

analyze_project(self_root, ns, fsys, listing) ==
    LET pass1 == FirstPass(self_root, listing, 1, ns)
        pass2 == [i \in 1..Len(pass1) |-> _analyze_file(pass1[i], fsys)]
        pass3 == _resolve_dependencies(pass2)
    IN  _calculate_metrics(pass3, fsys)

(***************************************************************************)
(* GraphEngine.get_graph_summary                                           *)
(***************************************************************************)
RECURSIVE NodeRelationships(_, _, _)
NodeRelationships(ns, node, k) ==
    IF k > Len(node.imports) THEN <<>>
    ELSE LET matched_internal == MatchedInternal(ns, node.imports[k])
         IN  (IF matched_internal = NoMatch THEN <<>>
              ELSE <<[from |-> node.key, to |-> matched_internal, type |-> "import"]>>)
             \o NodeRelationships(ns, node, k + 1)

RECURSIVE Relationships(_, _)
Relationships(ns, i) ==
    IF i > Len(ns) THEN <<>> ELSE NodeRelationships(ns, ns[i], 1) \o Relationships(ns, i + 1)

RECURSIVE FuncCalls(_, _, _)
FuncCalls(node, j, k) ==
    IF j > Len(node.functions) THEN <<>>
    ELSE IF k > Len(node.functions[j].calls) THEN FuncCalls(node, j + 1, 1)
    ELSE <<[from |-> node.key \o DOT \o node.functions[j].key,
            to_symbol |-> node.functions[j].calls[k],
            file |-> RelativeStr(node.file_path)]>> \o FuncCalls(node, j, k + 1)

RECURSIVE CallGraph(_, _)
CallGraph(ns, i) ==
    IF i > Len(ns) THEN <<>> ELSE FuncCalls(ns[i], 1, 1) \o CallGraph(ns, i + 1)

get_graph_summary(ns) ==
    [ modules |-> [i \in 1..Len(ns) |->
                     [ key |-> ns[i].key,
                       classes |-> ns[i].classes,
                       functions |-> Keys(ns[i].functions),
                       ownership |-> ns[i].ownership,
                       complexity_metrics |-> ns[i].metrics ]],
      relationships |-> Relationships(ns, 1),
      call_graph |-> [c \in 1..Len(CallGraph(ns, 1)) |->
                        [from |-> CallGraph(ns, 1)[c].from, to_symbol |-> CallGraph(ns, 1)[c].to_symbol]],
      layer_stats |-> [l \in {ns[i].ownership : i \in 1..Len(ns)} |->
                         Cardinality({i \in 1..Len(ns) : ns[i].ownership = l})] ]

(***************************************************************************)
(* NoCyclicImports.validate                                                *)
(***************************************************************************)
RECURSIVE BuildGraph(_, _, _)
BuildGraph(rels, k, graph) ==
    IF k > Len(rels) THEN graph
    ELSE BuildGraph(rels, k + 1,
             IF HasKey(graph, rels[k].from)
             THEN DictPut(graph, [key |-> rels[k].from,
                                  to |-> Append(DictGet(graph, rels[k].from).to, rels[k].to)])
             ELSE Append(graph, [key |-> rels[k].from, to |-> <<rels[k].to>>]))

Neighbors(graph, node) == IF HasKey(graph, node) THEN DictGet(graph, node).to ELSE <<>>

RECURSIVE has_cycle(_, _, _, _)
RECURSIVE CycleLoop(_, _, _, _, _)
has_cycle(graph, node, visited, path) ==
    CycleLoop(graph, node, 1, visited \cup {node}, path \cup {node})

CycleLoop(graph, node, k, visited, path) ==
    IF k > Len(Neighbors(graph, node))
    THEN [res |-> FALSE, cycle |-> {}, visited |-> visited, path |-> path \ {node}]
    ELSE LET neighbor == Neighbors(graph, node)[k]
         IN  IF neighbor \in path
             THEN [res |-> TRUE, cycle |-> path \cup {neighbor}, visited |-> visited, path |-> path]
             ELSE IF neighbor \notin visited
             THEN LET r == has_cycle(graph, neighbor, visited, path)
                  IN  IF r.res THEN r ELSE CycleLoop(graph, node, k + 1, r.visited, r.path)
             ELSE CycleLoop(graph, node, k + 1, visited, path)

RECURSIVE CycleScan(_, _, _, _)
CycleScan(graph, k, visited, violations) ==
    IF k > Len(graph) THEN violations
    ELSE IF graph[k].key \in visited THEN CycleScan(graph, k + 1, visited, violations)
    ELSE LET r == has_cycle(graph, graph[k].key, visited, {})
         IN  CycleScan(graph, k + 1, r.visited,
                 IF r.res THEN Append(violations, [kind |-> "Cyclic dependency detected", cycle |-> r.cycle])
                 ELSE violations)

NoCyclicImports_validate(summary) ==
    CycleScan(BuildGraph(summary.relationships, 1, <<>>), 1, {}, <<>>)

(***************************************************************************)
(* LayeredArchitectureViolation.validate                                   *)
(***************************************************************************)
ALLOWED_DOWNWARD(layer) ==
    CASE layer = "Interface" -> {"Core", "Infrastructure", "Data", "Abstractions", "Internal"}
      [] layer = "Core" -> {"Infrastructure", "Data", "Abstractions", "Internal"}
      [] layer = "Infrastructure" -> {"Data", "Abstractions", "Internal", "Core"}
      [] layer = "Data" -> {"Abstractions", "Internal", "Infrastructure"}
      [] layer = "Abstractions" -> {"Internal", "Core", "Infrastructure", "Data", "Interface"}
      [] layer = "Internal" -> {"Interface", "Core", "Infrastructure", "Data", "Abstractions", "Internal"}
      [] layer = "Test" -> {"Interface", "Core", "Infrastructure", "Data", "Abstractions", "Internal"}
      [] OTHER -> {}

OwnershipIn(summary, mod) ==
    IF HasKey(summary.modules, mod) THEN DictGet(summary.modules, mod).ownership ELSE "None"

RECURSIVE LayerScan(_, _)
LayerScan(summary, k) ==
    IF k > Len(summary.relationships) THEN <<>>
    ELSE LET rel == summary.relationships[k]
             from_layer == OwnershipIn(summary, rel.from)
             to_layer == OwnershipIn(summary, rel.to)
         IN  (IF from_layer # "None" /\ to_layer # "None" /\ from_layer # to_layer
                 /\ to_layer \notin ALLOWED_DOWNWARD(from_layer)
              THEN <<[kind |-> "Layer Violation", from_mod |-> rel.from, from_layer |-> from_layer,
                      to_mod |-> rel.to, to_layer |-> to_layer]>>
              ELSE <<>>) \o LayerScan(summary, k + 1)

LayeredArchitectureViolation_validate(summary) == LayerScan(summary, 1)

(***************************************************************************)
(* ArchValidator.run_validation, after its engine's analyze_project        *)
(***************************************************************************)
Tag(rule, violations) ==
    [i \in 1..Len(violations) |-> [rule |-> rule, severity |-> "Critical", message |-> violations[i]]]

\* a verdict taken from the violations of the last rule only
RunValidationJudgingLastRule(ns) ==
    LET summary == get_graph_summary(ns)
        violations == Tag("Layered Policy", LayeredArchitectureViolation_validate(summary))
        all_violations == Tag("No Cycles", NoCyclicImports_validate(summary)) \o violations
    IN  [ success |-> {i \in 1..Len(violations) : violations[i].severity = "Critical"} = {},
          violations |-> all_violations,
          project_stats |-> summary.layer_stats ]

run_validation(ns) ==
    LET summary == get_graph_summary(ns)
        all_violations == Tag("No Cycles", NoCyclicImports_validate(summary))
                          \o Tag("Layered Policy", LayeredArchitectureViolation_validate(summary))
    IN  [ success |-> {i \in 1..Len(all_violations) : all_violations[i].severity = "Critical"} = {},
          violations |-> all_violations,
          project_stats |-> summary.layer_stats ]

(***************************************************************************)
(* GraphEngine.get_impact_scope                                            *)
(***************************************************************************)
ModuleImportPrefix == <<"M", "o", "d", "u", "l", "e", " ", "I", "m", "p", "o", "r", "t", ":", " ">>

\* a match that knows equality and qualified calls, but not the bare call of a
\* qualified symbol
CallMatchesWithoutSuffix(current_symbol, call) ==
    \/ current_symbol = call
    \/ EndsWith(call, DOT \o current_symbol)

CallMatches(current_symbol, call) ==
    \/ current_symbol = call
    \/ EndsWith(current_symbol, DOT \o call)
    \/ EndsWith(call, DOT \o current_symbol)

RECURSIVE trace_up(_, _, _, _, _)
RECURSIVE TraceLoop(_, _, _, _, _, _)
trace_up(calls, max_depth, current_symbol, depth, st) ==
    IF depth > max_depth \/ current_symbol \in st.visited THEN st
    ELSE TraceLoop(calls, max_depth, current_symbol, depth, 1,
                   [st EXCEPT !.visited = @ \cup {current_symbol}])

TraceLoop(calls, max_depth, current_symbol, depth, k, st) ==
    IF k > Len(calls) THEN st
    ELSE IF CallMatches(current_symbol, calls[k].to_symbol)
    THEN LET full_func_name == calls[k].from
             st1 == IF \E i \in 1..Len(st.impacted) : st.impacted[i].name = full_func_name
                    THEN st
                    ELSE [st EXCEPT !.impacted = Append(@, [name |-> full_func_name, depth |-> depth,
                                                            file |-> calls[k].file])]
         IN  TraceLoop(calls, max_depth, current_symbol, depth, k + 1,
                       trace_up(calls, max_depth, full_func_name, depth + 1, st1))
    ELSE TraceLoop(calls, max_depth, current_symbol, depth, k + 1, st)

RECURSIVE ImportHits(_, _, _, _)
ImportHits(ns, target_symbol, i, k) ==
    IF i > Len(ns) THEN <<>>
    ELSE IF k > Len(ns[i].imports) THEN ImportHits(ns, target_symbol, i + 1, 1)
    ELSE (IF target_symbol = ns[i].imports[k] \/ StartsWith(target_symbol, ns[i].imports[k] \o DOT)
          THEN <<[name |-> ModuleImportPrefix \o ns[i].key, depth |-> 1,
                  file |-> RelativeStr(ns[i].file_path)]>>
          ELSE <<>>) \o ImportHits(ns, target_symbol, i, k + 1)

get_impact_scope(ns, target_symbol, max_depth) ==
    trace_up(CallGraph(ns, 1), max_depth, target_symbol, 1, [impacted |-> <<>>, visited |-> {}]).impacted
    \o ImportHits(ns, target_symbol, 1, 1)

(***************************************************************************)
(* get_symbol_metrics                                                      *)
(***************************************************************************)
NotFound == [error |-> "Symbol not found in graph"]

First(S) == CHOOSE i \in S : \A j \in S : i <= j

SymbolRecord(node, complexity) ==
    [ module |-> node.key,
      churn |-> node.metrics.churn,
      complexity |-> complexity,
      fan_in |-> node.metrics.fan_in,
      fan_out |-> node.metrics.fan_out,
      depth |-> node.metrics.dependency_depth ]

\* the test of step 2: a class, a function key, or part of a function key
SymbolIn(node, symbol) ==
    \/ HasKey(node.classes, symbol)
    \/ HasKey(node.functions, symbol)
    \/ \E j \in 1..Len(node.functions) : Contains(node.functions[j].key, symbol)

RECURSIVE get_symbol_metrics(_, _)
get_symbol_metrics(ns, symbol) ==
    IF HasKey(ns, symbol)
    THEN LET node == DictGet(ns, symbol) IN SymbolRecord(node, Len(node.functions))
    ELSE LET declaring == {i \in 1..Len(ns) : SymbolIn(ns[i], symbol)}
             fuzzy == {i \in 1..Len(ns) : Contains(Lower(ns[i].key), Lower(symbol))}
         IN  IF declaring # {}
             THEN LET node == ns[First(declaring)]
                  IN  SymbolRecord(node, IF HasKey(node.functions, symbol)
                                         THEN Len(DictGet(node.functions, symbol).calls)
                                         ELSE 0)
             ELSE IF fuzzy # {}
                  THEN get_symbol_metrics(ns, ns[First(fuzzy)].key)
                  ELSE NotFound

(***************************************************************************)
(* Actions                                                                 *)
(***************************************************************************)
Inst == {1, 2}

\* engines whose node table is one table shared by every instance (a class attribute)
AnalyzeProjectSharedNodes(i) ==
    /\ \E listing \in rglob(fs, root_path[i]) :
           nodes' = [j \in Inst |-> analyze_project(root_path[i], nodes[i], fs, listing)]
    /\ built' = [built EXCEPT ![i] = TRUE]
    /\ result' = [op |-> "analyze_project", inst |-> i, outcome |-> "returned", value |-> "None"]
    /\ UNCHANGED <<fs, root_path, state, pc, agent_calls, report>>

AnalyzeProject(i) ==
    /\ \E listing \in rglob(fs, root_path[i]) :
           nodes' = [nodes EXCEPT ![i] = analyze_project(root_path[i], nodes[i], fs, listing)]
    /\ built' = [built EXCEPT ![i] = TRUE]
    /\ result' = [op |-> "analyze_project", inst |-> i, outcome |-> "returned", value |-> "None"]
    /\ UNCHANGED <<fs, root_path, state, pc, agent_calls, report>>

RunValidation(i) ==
    /\ \E listing \in rglob(fs, root_path[i]) :
           /\ nodes' = [nodes EXCEPT ![i] = analyze_project(root_path[i], nodes[i], fs, listing)]
           /\ result' = [op |-> "run_validation", inst |-> i, outcome |-> "returned",
                        value |-> run_validation(nodes'[i])]
    /\ built' = [built EXCEPT ![i] = TRUE]
    /\ UNCHANGED <<fs, root_path, state, pc, agent_calls, report>>

\* a summary that hands out the nodes' own class tables and empties them afterwards
GetGraphSummaryDrainingClasses(i) ==
    /\ result' = [op |-> "get_graph_summary", inst |-> i, value |-> get_graph_summary(nodes[i])]
    /\ nodes' = [nodes EXCEPT ![i] = [k \in 1..Len(@) |-> [@[k] EXCEPT !.classes = <<>>]]]
    /\ UNCHANGED <<fs, root_path, built, state, pc, agent_calls, report>>

GetGraphSummary(i) ==
    /\ result' = [op |-> "get_graph_summary", inst |-> i, value |-> get_graph_summary(nodes[i])]
    /\ UNCHANGED <<fs, root_path, nodes, built, state, pc, agent_calls, report>>

GetImpactScope(i, target_symbol, max_depth) ==
    /\ result' = [op |-> "get_impact_scope", inst |-> i, target_symbol |-> target_symbol,
                  max_depth |-> max_depth,
                  value |-> get_impact_scope(nodes[i], target_symbol, max_depth)]
    /\ UNCHANGED <<fs, root_path, nodes, built, state, pc, agent_calls, report>>

GetSymbolMetrics(i, symbol) ==
    /\ result' = [op |-> "get_symbol_metrics", inst |-> i, symbol |-> symbol,
                  outcome |-> "returned", value |-> get_symbol_metrics(nodes[i], symbol)]
    /\ UNCHANGED <<fs, root_path, nodes, built, state, pc, agent_calls, report>>

\* rule.validate(engine.get_graph_summary()) for one of the two rules
Validate(i, rule) ==
    /\ result' = [op |-> "validate", inst |-> i, rule |-> rule,
                  value |-> IF rule = "No Cycles"
                            THEN NoCyclicImports_validate(get_graph_summary(nodes[i]))
                            ELSE LayeredArchitectureViolation_validate(get_graph_summary(nodes[i]))]
    /\ UNCHANGED <<fs, root_path, nodes, built, state, pc, agent_calls, report>>

\* the environment creates a source file under root r
WriteFile(r, f) ==
    /\ fs[r].exists
    /\ \A g \in fs[r].files : ~(g.dirs = f.dirs /\ g.name = f.name)
    /\ fs' = [fs EXCEPT ![r].files = @ \cup {f}]
    /\ UNCHANGED <<root_path, nodes, built, result, state, pc, agent_calls, report>>

\* the environment deletes a source file under root r
RemoveFile(r, f) ==
    /\ f \in fs[r].files
    /\ fs' = [fs EXCEPT ![r].files = @ \ {f}]
    /\ UNCHANGED <<root_path, nodes, built, result, state, pc, agent_calls, report>>

(***************************************************************************)
(* Source trees.  A tree is a set of files; a family of trees is given by  *)
(* the paths it may hold and the statements its files may contain, each    *)
(* statement placed in one of the files.                                   *)
(***************************************************************************)
MaxFiles == 2

MaxStmts == 2

Src(dirs, name, body) == [dirs |-> dirs, name |-> name, fails |-> FALSE, body |-> body, git |-> 1]

BodyOf(p, pl) ==
    LET sel == SelectSeq(pl, LAMBDA e : e[1] = p)
    IN  [k \in 1..Len(sel) |-> sel[k][2]]

Trees(paths, stmts, maxFiles, maxStmts) ==
    UNION { { {Src(p.dirs, p.name, BodyOf(p, pl)) : p \in P} :
                pl \in UNION {[1..n -> P \X stmts] : n \in 0..maxStmts} } :
            P \in {Q \in SUBSET paths : 1 <= Cardinality(Q) /\ Cardinality(Q) <= maxFiles} }

Import(name) == [kind |-> "import", names |-> <<name>>]

ImportFrom(module, level) == [kind |-> "from", module |-> module, level |-> level]

S_data == <<"d", "a", "t", "a">>

S_api == <<"a", "p", "i">>

S_x == <<"x">>

S_env == <<"e", "n", "v">>

S_os == <<"o", "s">>

RootR == << <<"r">> >>

GraphPaths ==
    { [dirs |-> <<>>, name |-> S_data \o PY],
      [dirs |-> <<S_data>>, name |-> S_api \o PY],
      [dirs |-> <<>>, name |-> S_data \o DOT \o S_api \o PY],
      [dirs |-> <<>>, name |-> S_x \o PY],
      [dirs |-> <<S_env>>, name |-> S_x \o PY] }

GraphStmts ==
    { Import(S_data),
      Import(S_data \o DOT \o S_api),
      Import(S_data \o S_x),
      Import(S_x),
      Import(S_os),
      ImportFrom(S_api, 1) }

NoResult == [op |-> "none"]

InitGraph ==
    /\ \E t \in Trees(GraphPaths, GraphStmts, MaxFiles, MaxStmts) :
           fs = [r \in {RootR} |-> [exists |-> TRUE, files |-> t]]
    /\ root_path = [i \in Inst |-> RootR]
    /\ nodes = [i \in Inst |-> <<>>]
    /\ built = [i \in Inst |-> FALSE]
    /\ result = NoResult
    /\ OrchestratorInit

Init == InitGraph

Next ==
    \/ AnalyzeProject(1)
    \/ RunValidation(1)
    \/ GetGraphSummary(1)

Spec == Init /\ [][Next]_vars

(***************************************************************************)
(* Two engines, each constructed on a root that may or may not exist       *)
(***************************************************************************)
PairFiles == 2

PairStmts == 1

RootGone == << <<"g", "o", "n", "e">> >>

InitPair ==
    /\ \E t \in Trees(GraphPaths, GraphStmts, PairFiles, PairStmts) :
           fs = [r \in {RootR, RootGone} |->
                    IF r = RootR THEN [exists |-> TRUE, files |-> t] ELSE [exists |-> FALSE, files |-> {}]]
    /\ root_path \in [Inst -> {RootR, RootGone}]
    /\ nodes = [i \in Inst |-> <<>>]
    /\ built = [i \in Inst |-> FALSE]
    /\ result = NoResult
    /\ OrchestratorInit

NextPair ==
    \E i \in Inst :
        \/ AnalyzeProject(i)
        \/ RunValidation(i)
        \/ GetGraphSummary(i)

SpecPair == InitPair /\ [][NextPair]_vars

(***************************************************************************)
(* Trees whose files declare classes and functions, and may fail to parse  *)
(***************************************************************************)
ParseFiles == 2

ParseStmts == 2

S_f == <<"f">>

S_g == <<"g">>

S_Base == <<"B", "a", "s", "e">>

ParsePaths ==
    { [dirs |-> <<>>, name |-> S_x \o PY],
      [dirs |-> <<>>, name |-> S_data \o PY],
      [dirs |-> <<S_data>>, name |-> S_api \o PY] }

ParseItems ==
    { [kind |-> "func", name |-> S_f, calls |-> <<S_g>>],
      [kind |-> "class", name |-> S_Base, methods |-> <<[name |-> S_g, calls |-> <<S_x \o DOT \o S_f>>]>>],
      Import(S_x),
      ImportFrom(<<>>, 1) }

InitParse ==
    /\ \E t \in Trees(ParsePaths, ParseItems, ParseFiles, ParseStmts) :
         \E bad \in SUBSET t :
           fs = [r \in {RootR} |->
                    [exists |-> TRUE,
                     files |-> {[f EXCEPT !.fails = (f \in bad)] : f \in t}]]
    /\ root_path = [i \in Inst |-> RootR]
    /\ nodes = [i \in Inst |-> <<>>]
    /\ built = [i \in Inst |-> FALSE]
    /\ result = NoResult
    /\ OrchestratorInit

SpecParse == InitParse /\ [][Next]_vars

(***************************************************************************)
(* Call chains: function k of the chain lives in its own module, one       *)
(* directory level below module k - 1, and calls function k - 1 (the first *)
(* one calls f); some functions make extra calls.                          *)
(***************************************************************************)
MaxChain == 5

MaxExtra == 1

MaxDepth == 4

S_z == <<"z">>

ChainModule == << <<"a">>, <<"b">>, <<"c">>, <<"d">>, <<"e">>, <<"h">> >>

ChainFunc == << <<"p">>, <<"q">>, <<"s">>, <<"t">>, <<"u">>, <<"v">> >>

ChainCallees(n) == {S_f} \cup {ChainFunc[k] : k \in 1..n}

ChainFile(n, k, extra) ==
    LET ex == SelectSeq(extra, LAMBDA e : e[1] = k)
    IN  Src([j \in 1..(k - 1) |-> S_z], ChainModule[k] \o PY,
            <<[kind |-> "func", name |-> ChainFunc[k],
               calls |-> <<IF k = 1 THEN S_f ELSE ChainFunc[k - 1]>> \o [j \in 1..Len(ex) |-> ex[j][2]]]>>)

ChainTrees ==
    UNION { { {ChainFile(n, k, extra) : k \in 1..n} :
                extra \in UNION {[1..m -> (1..n) \X ChainCallees(n)] : m \in 0..MaxExtra} } :
            n \in 1..MaxChain }

ImpactTargets == {S_f, <<"a">> \o DOT \o S_f}

InitImpact ==
    /\ \E t \in ChainTrees : fs = [r \in {RootR} |-> [exists |-> TRUE, files |-> t]]
    /\ root_path = [i \in Inst |-> RootR]
    /\ nodes = [i \in Inst |-> <<>>]
    /\ built = [i \in Inst |-> FALSE]
    /\ result = NoResult
    /\ OrchestratorInit

NextImpact ==
    \/ AnalyzeProject(1)
    \/ \E target_symbol \in ImpactTargets, max_depth \in 0..MaxDepth :
          GetImpactScope(1, target_symbol, max_depth)

SpecImpact == InitImpact /\ [][NextImpact]_vars

(***************************************************************************)
(* Two engines over two roots that both exist: root r holds a tree of the  *)
(* family, root s a fixed tree with an import cycle.                       *)
(***************************************************************************)
TwoFiles == 2

TwoStmts == 1

RootS == << <<"s">> >>

TwoPaths ==
    { [dirs |-> <<>>, name |-> S_x \o PY],
      [dirs |-> <<>>, name |-> S_data \o PY] }

TreeS == {Src(<<>>, S_x \o PY, <<Import(S_data)>>), Src(<<>>, S_data \o PY, <<Import(S_x)>>)}

InitTwo ==
    /\ \E t \in Trees(TwoPaths, {Import(S_data), Import(S_x)}, TwoFiles, TwoStmts) :
           fs = [r \in {RootR, RootS} |->
                    [exists |-> TRUE, files |-> IF r = RootR THEN t ELSE TreeS]]
    /\ root_path \in [Inst -> {RootR, RootS}]
    /\ nodes = [i \in Inst |-> <<>>]
    /\ built = [i \in Inst |-> FALSE]
    /\ result = NoResult
    /\ OrchestratorInit

SpecTwo == InitTwo /\ [][NextPair]_vars

(***************************************************************************)
(* Trees whose files differ in what the version-control call does          *)
(***************************************************************************)
ChurnFiles == 2

ChurnStmts == 1

MaxCommits == 2

GitOutcomes == {-3, -2, -1} \cup {0, MaxCommits}

InitChurn ==
    /\ \E t \in Trees(TwoPaths, {Import(S_data), Import(S_x)}, ChurnFiles, ChurnStmts) :
         \E g \in [t -> GitOutcomes] :
           fs = [r \in {RootR} |-> [exists |-> TRUE, files |-> {[f EXCEPT !.git = g[f]] : f \in t}]]
    /\ root_path = [i \in Inst |-> RootR]
    /\ nodes = [i \in Inst |-> <<>>]
    /\ built = [i \in Inst |-> FALSE]
    /\ result = NoResult
    /\ OrchestratorInit

NextChurn ==
    \/ AnalyzeProject(1)
    \/ \E symbol \in {S_x, S_data} : GetSymbolMetrics(1, symbol)

SpecChurn == InitChurn /\ [][NextChurn]_vars

(***************************************************************************)
(* Trees for the verdict: a Data module and an Interface module that may   *)
(* import each other or themselves.                                        *)
(***************************************************************************)
Rules == {"No Cycles", "Layered Policy"}

VerdictFiles == 2

VerdictStmts == 2

VerdictPaths ==
    { [dirs |-> <<>>, name |-> S_data \o PY],
      [dirs |-> <<>>, name |-> S_api \o PY] }

InitVerdict ==
    /\ \E t \in Trees(VerdictPaths, {Import(S_data), Import(S_api)}, VerdictFiles, VerdictStmts) :
           fs = [r \in {RootR} |-> [exists |-> TRUE, files |-> t]]
    /\ root_path = [i \in Inst |-> RootR]
    /\ nodes = [i \in Inst |-> <<>>]
    /\ built = [i \in Inst |-> FALSE]
    /\ result = NoResult
    /\ OrchestratorInit

NextVerdict ==
    \/ AnalyzeProject(1)
    \/ RunValidation(1)
    \/ \E rule \in Rules : Validate(1, rule)

SpecVerdict == InitVerdict /\ [][NextVerdict]_vars

(***************************************************************************)
(* Trees for relative imports: modules whose ids have one, two and three   *)
(* segments, holding from-imports of every level up to past the root.      *)
(***************************************************************************)
RelFiles == 1

RelStmts == 2

RelPaths ==
    { [dirs |-> <<>>, name |-> S_x \o PY],
      [dirs |-> <<S_data>>, name |-> S_api \o PY],
      [dirs |-> <<S_data, S_x>>, name |-> S_api \o PY] }

RelItems ==
    {ImportFrom(S_x, level) : level \in 0..3} \cup {ImportFrom(<<>>, level) : level \in {1, 3}}

InitRel ==
    /\ \E t \in Trees(RelPaths, RelItems, RelFiles, RelStmts) :
           fs = [r \in {RootR} |-> [exists |-> TRUE, files |-> t]]
    /\ root_path = [i \in Inst |-> RootR]
    /\ nodes = [i \in Inst |-> <<>>]
    /\ built = [i \in Inst |-> FALSE]
    /\ result = NoResult
    /\ OrchestratorInit

NextRel ==
    \/ AnalyzeProject(1)
    \/ GetGraphSummary(1)
    \/ \E target_symbol \in {S_x, S_data \o DOT \o S_x} : GetImpactScope(1, target_symbol, 1)

SpecRel == InitRel /\ [][NextRel]_vars

(***************************************************************************)
(* Trees for ownership: paths that satisfy one, several or none of the     *)
(* path rules, in either letter case, holding classes with and without     *)
(* 'Base' in their names.                                                  *)
(***************************************************************************)
OwnFiles == 1

OwnStmts == 2

S_core == <<"c", "o", "r", "e">>

S_test == <<"t", "e", "s", "t">>

S_caching == <<"c", "a", "c", "h", "i", "n", "g">>

OwnPaths ==
    { [dirs |-> <<S_core>>, name |-> S_api \o PY],
      [dirs |-> <<S_data>>, name |-> S_api \o PY],
      [dirs |-> <<S_caching>>, name |-> S_core \o PY],
      [dirs |-> <<S_test>>, name |-> S_data \o PY],
      [dirs |-> <<>>, name |-> <<"D", "A", "T", "A">> \o PY],
      [dirs |-> <<>>, name |-> S_test \o PY],
      [dirs |-> <<>>, name |-> S_x \o PY] }

OwnItems ==
    { [kind |-> "class", name |-> S_x \o S_Base, methods |-> <<>>],
      [kind |-> "class", name |-> <<"b", "a", "s", "e">>, methods |-> <<>>] }

InitOwn ==
    /\ \E t \in Trees(OwnPaths, OwnItems, OwnFiles, OwnStmts) :
           fs = [r \in {RootR} |-> [exists |-> TRUE, files |-> t]]
    /\ root_path = [i \in Inst |-> RootR]
    /\ nodes = [i \in Inst |-> <<>>]
    /\ built = [i \in Inst |-> FALSE]
    /\ result = NoResult
    /\ OrchestratorInit

NextOwn ==
    \/ AnalyzeProject(1)
    \/ GetGraphSummary(1)
    \/ RunValidation(1)

SpecOwn == InitOwn /\ [][NextOwn]_vars

(***************************************************************************)
(* One tree placed at several root locations, an engine on each: a root    *)
(* below a directory called env, and a root called api.                    *)
(***************************************************************************)
MovedFiles == 2

MovedStmts == 1

RootEnv == <<S_env, <<"r">>>>

RootApi == <<S_api>>

MovedPaths ==
    { [dirs |-> <<>>, name |-> S_x \o PY],
      [dirs |-> <<S_env>>, name |-> S_x \o PY],
      [dirs |-> <<S_data>>, name |-> S_api \o PY] }

InitMoved(roots) ==
    /\ \E t \in Trees(MovedPaths, {Import(S_x)}, MovedFiles, MovedStmts) :
           fs = [r \in roots |-> [exists |-> TRUE, files |-> t]]
    /\ root_path \in [Inst -> roots]
    /\ nodes = [i \in Inst |-> <<>>]
    /\ built = [i \in Inst |-> FALSE]
    /\ result = NoResult
    /\ OrchestratorInit

InitIgnore == InitMoved({RootR, RootEnv})

SpecIgnore == InitIgnore /\ [][NextPair]_vars

InitRooted == InitMoved({RootR, RootApi})

SpecRooted == InitRooted /\ [][NextPair]_vars

(***************************************************************************)
(* Trees for the depth computation: three modules that may import one      *)
(* another and themselves in any combination.                              *)
(***************************************************************************)
DepthFiles == 3

DepthStmts == 3

DepthPaths ==
    { [dirs |-> <<>>, name |-> S_x \o PY],
      [dirs |-> <<>>, name |-> S_data \o PY],
      [dirs |-> <<>>, name |-> S_api \o PY] }

InitDepth ==
    /\ \E t \in Trees(DepthPaths, {Import(S_x), Import(S_data), Import(S_api)}, DepthFiles, DepthStmts) :
           fs = [r \in {RootR} |-> [exists |-> TRUE, files |-> t]]
    /\ root_path = [i \in Inst |-> RootR]
    /\ nodes = [i \in Inst |-> <<>>]
    /\ built = [i \in Inst |-> FALSE]
    /\ result = NoResult
    /\ OrchestratorInit

NextDepth ==
    \/ AnalyzeProject(1)
    \/ GetSymbolMetrics(1, S_x)

SpecDepth == InitDepth /\ [][NextDepth]_vars

(***************************************************************************)
(* Trees for the queries: functions whose names contain one another, a     *)
(* class with a method, and an import; every query is asked of the graph.  *)
(***************************************************************************)
QueryFiles == 2

QueryStmts == 2

S_fg == <<"f", "g">>

QueryPaths ==
    { [dirs |-> <<>>, name |-> S_x \o PY],
      [dirs |-> <<>>, name |-> S_data \o PY] }

QueryItems ==
    { [kind |-> "func", name |-> S_fg, calls |-> <<S_g>>],
      [kind |-> "func", name |-> S_g, calls |-> <<>>],
      [kind |-> "class", name |-> S_Base, methods |-> <<[name |-> S_g, calls |-> <<S_x \o DOT \o S_f>>]>>],
      Import(S_data) }

QuerySymbols ==
    { S_g, S_fg, S_Base, S_Base \o DOT \o S_g, S_x, <<"D", "A", "T">>, <<"z", "z">>, <<>> }

QueryTargets == {S_g, S_data, S_f, S_data \o DOT \o S_f}

QueryDepths == {0, 2}

InitQuery ==
    /\ \E t \in Trees(QueryPaths, QueryItems, QueryFiles, QueryStmts) :
           fs = [r \in {RootR} |-> [exists |-> TRUE, files |-> t]]
    /\ root_path = [i \in Inst |-> RootR]
    /\ nodes = [i \in Inst |-> <<>>]
    /\ built = [i \in Inst |-> FALSE]
    /\ result = NoResult
    /\ OrchestratorInit

NextQuery ==
    \/ AnalyzeProject(1)
    \/ GetGraphSummary(1)
    \/ \E target_symbol \in QueryTargets, max_depth \in QueryDepths :
          GetImpactScope(1, target_symbol, max_depth)
    \/ \E symbol \in QuerySymbols : GetSymbolMetrics(1, symbol)
    \/ \E rule \in Rules : Validate(1, rule)

SpecQuery == InitQuery /\ [][NextQuery]_vars

(***************************************************************************)
(* A tree that changes between scans: files of a fixed set come and go     *)
(* while one engine analyses the tree again and again.                     *)
(***************************************************************************)
EditFiles ==
    { Src(<<>>, S_x \o PY, <<Import(S_data), [kind |-> "func", name |-> S_g, calls |-> <<S_f>>]>>),
      Src(<<>>, S_data \o PY, <<[kind |-> "func", name |-> S_f, calls |-> <<>>]>>),
      Src(<<S_data>>, S_api \o PY, <<Import(S_x)>>),
      Src(<<S_env>>, S_x \o PY, <<Import(S_os)>>) }

InitEdit ==
    /\ \E t \in SUBSET EditFiles : fs = [r \in {RootR} |-> [exists |-> TRUE, files |-> t]]
    /\ root_path = [i \in Inst |-> RootR]
    /\ nodes = [i \in Inst |-> <<>>]
    /\ built = [i \in Inst |-> FALSE]
    /\ result = NoResult
    /\ OrchestratorInit

NextEdit ==
    \/ AnalyzeProject(1)
    \/ GetGraphSummary(1)
    \/ \E f \in EditFiles : WriteFile(RootR, f)
    \/ \E f \in EditFiles : RemoveFile(RootR, f)

SpecEdit == InitEdit /\ [][NextEdit]_vars

(***************************************************************************)
(* Plain call chains: f in module x; caller k in its own module at the     *)
(* root, calling caller k - 1 (the first one calls f) and nothing else; no *)
(* imports.  All files are siblings, so every enumeration order occurs.    *)
(***************************************************************************)
FlatChain == 3

FlatFile(k) ==
    Src(<<>>, ChainModule[k] \o PY,
        <<[kind |-> "func", name |-> ChainFunc[k],
           calls |-> <<IF k = 1 THEN S_f ELSE ChainFunc[k - 1]>>]>>)

FlatTree(n) ==
    {Src(<<>>, S_x \o PY, <<[kind |-> "func", name |-> S_f, calls |-> <<>>]>>)}
    \cup {FlatFile(k) : k \in 1..n}

InitFlat ==
    /\ \E n \in 1..FlatChain : fs = [r \in {RootR} |-> [exists |-> TRUE, files |-> FlatTree(n)]]
    /\ root_path = [i \in Inst |-> RootR]
    /\ nodes = [i \in Inst |-> <<>>]
    /\ built = [i \in Inst |-> FALSE]
    /\ result = NoResult
    /\ OrchestratorInit

NextFlat ==
    \/ AnalyzeProject(1)
    \/ \E target_symbol \in {S_f, S_x \o DOT \o S_f}, max_depth \in 0..MaxDepth :
          GetImpactScope(1, target_symbol, max_depth)

SpecFlat == InitFlat /\ [][NextFlat]_vars

(***************************************************************************)
(* The agent pipeline (ai_architect/core_ai/orchestrator.py).  The agents  *)
(* belong to the auditor; what one of them does when it is called is an    *)
(* input of the step that calls it.  Latencies are wall-clock readings and *)
(* are left out of the responses and of the report, and so are the         *)
(* stability recommendations, which are free text.  A task is kept as its  *)
(* title and its note.                                                     *)
(***************************************************************************)
MaxTickets == 1

Agents ==
    <<"PathNavigator", "Discovery", "ContextBuilder", "GapAnalyzer",
      "TicketGenerator", "Planner", "AuditorVerifier">>

AgentNames == {Agents[k] : k \in 1..Len(Agents)}

EmptyDict == [k \in {} |-> k]

\* the fields without a default of each agent's output model
RequiredFields ==
    [PathNavigator |-> {"resolved_path", "exists_hint", "rationale"},
     Discovery |-> {"languages", "frameworks", "architecture_type", "module_summary"},
     ContextBuilder |-> {"dependencies", "patterns", "critical_paths"},
     GapAnalyzer |-> {"markdown_report"},
     TicketGenerator |-> {"tickets"},
     Planner |-> {"sprint_plan"},
     AuditorVerifier |-> {"findings", "summary"}]

\* XxxOutput(**data) constructs iff every required field is given
Validates(agent_name, data) == RequiredFields[agent_name] \subseteq DOMAIN data

AgentResponse(agent_name, success, data, error) ==
    [agent_name |-> agent_name, success |-> success, data |-> data, error |-> error]

AgentState(repo_path, goals) == [repo_path |-> repo_path, goals |-> goals, history |-> <<>>]

get_last_data(st, agent_name) ==
    LET hits == {k \in 1..Len(st.history) :
                    st.history[k].agent_name = agent_name /\ st.history[k].success}
    IN  IF hits = {} THEN "None"
        ELSE st.history[CHOOSE k \in hits : \A m \in hits : m <= k].data

\* what calling an agent does: it raises, returns None, returns something that
\* is neither a model nor a dict (a str), or returns a model or a dict, whose
\* dump is the data
ErrorOf(agent_name, outcome) ==
    CASE outcome.kind = "raises" -> <<"agent failed">>
      [] outcome.kind = "None" -> <<"Agent ", agent_name, " returned None.">>
      [] OTHER -> <<"Input should be a valid dictionary">>

\* a run that records nothing when the agent fails
ExecuteAgentSilentOnFailure(st, agent_name, outcome) ==
    IF outcome.kind = "returns"
    THEN [state |-> [st EXCEPT !.history =
                        Append(@, AgentResponse(agent_name, TRUE, outcome.data, "None"))],
          value |-> TRUE]
    ELSE [state |-> st, value |-> FALSE]

\* state after the call and the bool returned
_execute_agent(st, agent_name, outcome) ==
    IF outcome.kind = "returns"
    THEN [state |-> [st EXCEPT !.history =
                        Append(@, AgentResponse(agent_name, TRUE, outcome.data, "None"))],
          value |-> TRUE]
    ELSE [state |-> [st EXCEPT !.history =
                        Append(@, AgentResponse(agent_name, FALSE, EmptyDict,
                                                ErrorOf(agent_name, outcome)))],
          value |-> FALSE]

StoppedMessage ==
    [PathNavigator |-> "Path navigation failed. Orchestration stopped.",
     Discovery |-> "Discovery failed. Orchestration stopped.",
     ContextBuilder |-> "Context building failed. Orchestration stopped.",
     GapAnalyzer |-> "Gap analysis failed. Orchestration stopped.",
     TicketGenerator |-> "Ticket generation failed. Orchestration stopped.",
     Planner |-> "Sprint planning failed. Orchestration stopped.",
     AuditorVerifier |-> "Plan verification failed. Orchestration stopped."]

\* notes_map.get(title, ""): the last finding of that title wins
NoteOf(findings, title) ==
    LET hits == {k \in 1..Len(findings) : findings[k].title = title}
    IN  IF hits = {} THEN ""
        ELSE findings[CHOOSE k \in hits : \A m \in hits : m <= k].risk_note

\* the final data integration.  The locals resolved_path, discovery_data, tickets,
\* sprint_plan and audit_report were read from the history when their agent had
\* run; the history only grows during a run, so they are read from it here.
result_report(st) ==
    LET resolved_path == get_last_data(st, "PathNavigator").resolved_path
        discovery_data == get_last_data(st, "Discovery")
        tickets == get_last_data(st, "TicketGenerator").tickets
        sprint_plan == get_last_data(st, "Planner").sprint_plan
        audit_report == get_last_data(st, "AuditorVerifier")
        final_tasks == [k \in 1..Len(tickets) |->
                           [title |-> tickets[k],
                            notes |-> NoteOf(audit_report.findings, tickets[k])]]
        goal == IF "expected_output" \in DOMAIN st.goals
                THEN st.goals.expected_output ELSE "General Improvement"
        performance == [agentCount |-> Len(st.history),
                        resolvedPath |-> resolved_path,
                        discoveryMetrics |-> [languages |-> discovery_data.languages,
                                              frameworks |-> discovery_data.frameworks]]
    IN  IF Len(tickets) = 0
        THEN [goal |-> goal, tasks |-> final_tasks, sprintPlan |-> sprint_plan,
              summary |-> audit_report.summary, performance |-> performance,
              diagnostics |-> [languages_found |-> discovery_data.languages,
                               architecture |-> discovery_data.architecture_type]]
        ELSE [goal |-> goal, tasks |-> final_tasks, sprintPlan |-> sprint_plan,
              summary |-> audit_report.summary, performance |-> performance]

\* run_pipeline up to its first await
RunPipeline(repo_path, goals) ==
    /\ pc \in {"idle", "done"}
    /\ state' = AgentState(repo_path, goals)
    /\ pc' = Agents[1]
    /\ agent_calls' = <<>>
    /\ report' = NoReport
    /\ UNCHANGED <<fs, root_path, nodes, built, result>>

\* run_pipeline from the call of the agent it has reached to the next await or
\* to its end: the response is recorded, a failure returns the stage's error
\* record, the data is read back into the stage's output model (outside any
\* try, so data the model rejects ends run_pipeline with the exception), the
\* navigator's exists_hint is tested, and the last stage builds the report
ExecuteAgent(agent_name, outcome) ==
    /\ pc = agent_name
    /\ LET run == _execute_agent(state, pc, outcome)
           data == get_last_data(run.state, pc)
           k == CHOOSE j \in 1..Len(Agents) : Agents[j] = pc
       IN  /\ state' = run.state
           /\ agent_calls' = Append(agent_calls, pc)
           /\ IF ~run.value
              THEN /\ report' = [error |-> <<StoppedMessage[pc]>>]
                   /\ pc' = "done"
              ELSE IF ~Validates(pc, data)
              THEN /\ report' = [raised |-> "ValidationError"]
                   /\ pc' = "done"
              ELSE IF pc = "PathNavigator" /\ ~data.exists_hint
              THEN /\ report' = [error |-> <<"Resolved path does not exist: ",
                                            data.resolved_path, ". Analysis impossible.">>]
                   /\ pc' = "done"
              ELSE IF k = Len(Agents)
              THEN /\ report' = result_report(run.state)
                   /\ pc' = "done"
              ELSE /\ pc' = Agents[k + 1]
                   /\ UNCHANGED report
    /\ UNCHANGED <<fs, root_path, nodes, built, result>>

(***************************************************************************)
(* One orchestrator run again and again, each agent free to fail, to       *)
(* return nothing, or to return data its output model accepts or rejects.  *)
(***************************************************************************)
RepoPaths == {"."}

ResolvedPaths == {"/repo", "/gone"}

Goals == {[expected_output |-> "Perfect system"], EmptyDict}

TicketTitles == {"Mock Task"}

Findings == {<<>>} \cup {<<[title |-> t, risk_note |-> "No risk"]>> : t \in TicketTitles}

ValidData(agent_name) ==
    CASE agent_name = "PathNavigator" ->
             {[resolved_path |-> p, exists_hint |-> b, rationale |-> "Mock resolution"] :
                 p \in ResolvedPaths, b \in BOOLEAN}
      [] agent_name = "Discovery" ->
             {[languages |-> <<"Python">>, frameworks |-> <<>>,
               architecture_type |-> "Monolith", module_summary |-> EmptyDict]}
      [] agent_name = "ContextBuilder" ->
             {[dependencies |-> <<>>, patterns |-> <<>>, critical_paths |-> <<>>]}
      [] agent_name = "GapAnalyzer" ->
             {[markdown_report |-> "Everything is missing", evidence_trail |-> <<>>]}
      [] agent_name = "TicketGenerator" ->
             {[tickets |-> ts] :
                 ts \in UNION {[1..n -> TicketTitles] : n \in 0..MaxTickets}}
      [] agent_name = "Planner" ->
             {[sprint_plan |-> <<>>]}
      [] agent_name = "AuditorVerifier" ->
             {[findings |-> f, summary |-> "Mock Verification Complete"] : f \in Findings}

\* a dict that lacks the fields of every output model
Malformed == [note |-> "Generic Mock Response"]

Outcomes(agent_name) ==
    {[kind |-> "raises"], [kind |-> "None"], [kind |-> "str"]}
    \cup {[kind |-> "returns", data |-> d] : d \in ValidData(agent_name) \cup {Malformed}}

InitPipeline ==
    /\ fs = [r \in {RootR} |-> [exists |-> TRUE, files |-> {}]]
    /\ root_path = [i \in Inst |-> RootR]
    /\ nodes = [i \in Inst |-> <<>>]
    /\ built = [i \in Inst |-> FALSE]
    /\ result = NoResult
    /\ OrchestratorInit

NextPipeline ==
    \/ \E repo_path \in RepoPaths, goals \in Goals : RunPipeline(repo_path, goals)
    \/ \E agent_name \in AgentNames :
           \E outcome \in Outcomes(agent_name) : ExecuteAgent(agent_name, outcome)

SpecPipeline == InitPipeline /\ [][NextPipeline]_vars

(***************************************************************************)
(* Notions the properties are stated in                                    *)
(***************************************************************************)
\* the import string imp names the module id: equal, or id followed by '.'
Names(imp, id) == imp = id \/ StartsWith(imp, id \o DOT)

\* import edge a -> b between two nodes of a graph
Edge(a, b) == \E k \in 1..Len(a.imports) : Names(a.imports[k], b.key)

RECURSIVE ReachIn(_, _, _)
ReachIn(ns, from, n) ==
    IF n = 0 THEN from
    ELSE LET r == ReachIn(ns, from, n - 1)
         IN  r \cup {j \in 1..Len(ns) : \E i \in r : Edge(ns[i], ns[j])}

\* indices of the nodes reachable from node i by one or more import edges
Reachable(ns, i) == ReachIn(ns, {j \in 1..Len(ns) : Edge(ns[i], ns[j])}, Len(ns))

HasClosedWalk(ns) == \E i \in 1..Len(ns) : i \in Reachable(ns, i)

RECURSIVE LongestChain(_, _, _)
LongestChain(ns, i, fuel) ==
    LET succ == {j \in 1..Len(ns) : Edge(ns[i], ns[j])}
    IN  IF succ = {} \/ fuel = 0 THEN 0
        ELSE LET ds == {LongestChain(ns, j, fuel - 1) : j \in succ}
             IN  1 + (CHOOSE d \in ds : \A e \in ds : e <= d)

SourceFiles(r) ==
    IF r \in DOMAIN fs /\ fs[r].exists
    THEN {f \in fs[r].files : EndsWith(f.name, PY) /\ \A q \in 1..Len(f.dirs) : f.dirs[q] \notin ignore_dirs}
    ELSE {}

Validated == result.op = "run_validation"

Report == result.value

Violations(rule) == {Report.violations[k].message : k \in {j \in 1..Len(Report.violations) : Report.violations[j].rule = rule}}

\* C2: the cycle rule reports a violation exactly when the import-edge graph has a closed walk
C2_CycleSoundness ==
    Validated =>
        (Violations("No Cycles") # {} <=> HasClosedWalk(nodes[result.inst]))

\* C3: an import edge between modules of different ownership is reported as a Layer Violation
\* exactly when the target's ownership is not allowed for the source's; same-ownership edges never are
C3_LayeringSoundness ==
    Validated =>
        LET ns == nodes[result.inst]
        IN  \A i, j \in 1..Len(ns) :
               Edge(ns[i], ns[j]) =>
                   LET reported == \E v \in Violations("Layered Policy") :
                                       v.from_mod = ns[i].key /\ v.to_mod = ns[j].key
                   IN  IF ns[i].ownership = ns[j].ownership THEN ~reported
                       ELSE reported <=> ns[j].ownership \notin ALLOWED_DOWNWARD(ns[i].ownership)

\* C4: fan_in(N) is the number of other nodes with an import naming N (equal, or N's id and a '.')
C4_FanIn ==
    \A e \in Inst : built[e] =>
        \A i \in 1..Len(nodes[e]) :
            nodes[e][i].metrics.fan_in =
                Cardinality({j \in 1..Len(nodes[e]) : j # i /\ Edge(nodes[e][j], nodes[e][i])})

\* C5: fan_out(N) is the number of distinct import strings of N that name some other node
C5_FanOut ==
    \A e \in Inst : built[e] =>
        \A i \in 1..Len(nodes[e]) :
            nodes[e][i].metrics.fan_out =
                Cardinality({imp \in Range(nodes[e][i].imports) :
                                \E j \in 1..Len(nodes[e]) : j # i /\ Names(imp, nodes[e][j].key)})

\* C6: in a graph without import cycles, dependency_depth(N) is the number of edges of the longest
\* import chain from N, and 0 when no import of N resolves to a node
C6_DependencyDepth ==
    \A e \in Inst : (built[e] /\ ~HasClosedWalk(nodes[e])) =>
        \A i \in 1..Len(nodes[e]) :
            nodes[e][i].metrics.dependency_depth = LongestChain(nodes[e], i, Len(nodes[e]))

\* C10: one node per non-ignored source file, and distinct files get distinct ids
C10_OneNodePerFile ==
    \A e \in Inst : built[e] =>
        /\ Len(nodes[e]) = Cardinality(SourceFiles(root_path[e]))
        /\ \A f, g \in SourceFiles(root_path[e]) :
               f # g => resolve_module_name(root_path[e], [root |-> root_path[e], dirs |-> f.dirs, name |-> f.name])
                        # resolve_module_name(root_path[e], [root |-> root_path[e], dirs |-> g.dirs, name |-> g.name])

\* names of the entries of an impact result
EntryNames(impacted) == {impacted[k].name : k \in 1..Len(impacted)}

\* C1: raising max_depth never removes an entry of get_impact_scope
C1_ImpactMonotonic ==
    \A e \in Inst : built[e] =>
        \A x \in ImpactTargets : \A d1, d2 \in 0..MaxDepth :
            d1 <= d2 => EntryNames(get_impact_scope(nodes[e], x, d1))
                        \subseteq EntryNames(get_impact_scope(nodes[e], x, d2))

\* C7: two builds of the same tree agree on node ids, imports, ownership and relationships
C7_Determinism ==
    (built[1] /\ built[2] /\ root_path[1] = root_path[2]) =>
        /\ Range(Keys(nodes[1])) = Range(Keys(nodes[2]))
        /\ \A k \in Range(Keys(nodes[1])) \cap Range(Keys(nodes[2])) :
               /\ DictGet(nodes[1], k).imports = DictGet(nodes[2], k).imports
               /\ DictGet(nodes[1], k).ownership = DictGet(nodes[2], k).ownership
        /\ Range(Relationships(nodes[1], 1)) = Range(Relationships(nodes[2], 1))

RootMissing(r) == ~(r \in DOMAIN fs /\ fs[r].exists)

\* C8: building on a root that does not exist reports an error, never an empty graph or a passing report
C8_FatalRootError ==
    (result.op \in {"analyze_project", "run_validation"} /\ RootMissing(root_path[result.inst])) =>
        result.outcome = "error"

\* the tree with every file readable and parsable
Healed(fsys) ==
    [r \in DOMAIN fsys |-> [fsys[r] EXCEPT !.files = {[f EXCEPT !.fails = FALSE] : f \in @}]]

\* the graph a fresh engine builds from the healed tree
HealedNodes(r) == analyze_project(r, <<>>, Healed(fs), CHOOSE l \in rglob(Healed(fs), r) : TRUE)

PathOf(r, f) == [root |-> r, dirs |-> f.dirs, name |-> f.name]

SameSymbols(n, m) == n.classes = m.classes /\ n.functions = m.functions /\ n.imports = m.imports

\* C9: a file that cannot be read or parsed keeps its node, with empty class, function and import
\* lists; the build completes and every other node is what it would be had that file parsed
C9_PerFileFailure ==
    \A e \in Inst : built[e] =>
        LET healed == HealedNodes(root_path[e])
        IN  /\ result.op = "analyze_project" => result.outcome = "returned"
            /\ \A f \in SourceFiles(root_path[e]) :
                  LET hits == {i \in 1..Len(nodes[e]) : nodes[e][i].file_path = PathOf(root_path[e], f)}
                  IN  /\ hits # {}
                      /\ \A i \in hits :
                            IF f.fails
                            THEN nodes[e][i].classes = <<>> /\ nodes[e][i].functions = <<>>
                                 /\ nodes[e][i].imports = <<>>
                            ELSE \E j \in 1..Len(healed) :
                                    /\ healed[j].file_path = nodes[e][i].file_path
                                    /\ SameSymbols(nodes[e][i], healed[j])

\* a built graph over a tree in which one file with declarations fails and another one parses
C9_Witness ==
    /\ built[1]
    /\ \E f, g \in SourceFiles(root_path[1]) :
          /\ f.fails /\ f.body # <<>>
          /\ ~g.fails
          /\ \E i \in 1..Len(nodes[1]) :
                /\ nodes[1][i].file_path = PathOf(root_path[1], g)
                /\ nodes[1][i].functions # <<>>

\* the nodes of engine e are exactly the non-ignored source files now in its tree
NodesMatchTree(e) ==
    /\ {nodes[e][k].file_path : k \in 1..Len(nodes[e])}
           = {PathOf(root_path[e], f) : f \in SourceFiles(root_path[e])}
    /\ Len(nodes[e]) = Cardinality(SourceFiles(root_path[e]))

\* C11: every analyze_project call leaves the engine with exactly one node per
\* non-ignored source file present at that scan, whatever was analysed before;
\* no node survives for a file that has been removed
C11_FreshBuild ==
    [][\A e \in Inst :
           (result'.op = "analyze_project" /\ result'.inst = e /\ fs' = fs) => NodesMatchTree(e)']_vars

QueryOps == {"get_graph_summary", "get_impact_scope", "get_symbol_metrics", "validate"}

\* C12: a step that returns from get_graph_summary, get_impact_scope,
\* get_symbol_metrics or a rule's validate leaves every engine's node set and
\* every node's id, classes, functions, calls, imports, ownership and metrics
\* as they were
C12_QueriesReadOnly ==
    [][result'.op \in QueryOps => nodes' = nodes]_vars

\* a symbol has been found on a built graph that has classes, functions,
\* imports and a non-zero metric
C12_Witness ==
    /\ built[1]
    /\ result.op = "get_symbol_metrics"
    /\ "error" \notin DOMAIN result.value
    /\ \E k \in 1..Len(nodes[1]) :
           /\ nodes[1][k].classes # <<>>
           /\ nodes[1][k].functions # <<>>
    /\ \E k \in 1..Len(nodes[1]) :
           /\ nodes[1][k].imports # <<>>
           /\ nodes[1][k].metrics.fan_out > 0

\* the graphs an engine rooted at r can hold after building alone
BuiltAlone(r) == {analyze_project(r, <<>>, fs, listing) : listing \in rglob(fs, r)}

\* engine e holds what it would hold had it run alone, and the answer on
\* display is the answer of the asked engine's own graph
Alone ==
    /\ \A e \in Inst : IF built[e] THEN nodes[e] \in BuiltAlone(root_path[e]) ELSE nodes[e] = <<>>
    /\ result.op = "get_graph_summary" => result.value = get_graph_summary(nodes[result.inst])
    /\ result.op = "run_validation" => result.value = run_validation(nodes[result.inst])

\* a step taken on one engine leaves the other engine's state as it was
Untouched ==
    \A e \in Inst : result'.inst # e => (nodes'[e] = nodes[e] /\ built'[e] = built[e])

\* C13: with the steps of two engines interleaved in any order, over the same
\* or different roots, each engine holds exactly the graph and returns exactly
\* the answers it would have produced alone, and no step of one engine
\* changes the state of the other
C13_IndependentInstances == []Alone /\ [][Untouched]_vars

\* both engines built over different roots, the second one validated after
\* the first was built and passing where the first one's tree has a cycle
C13_Witness ==
    /\ built[1] /\ built[2]
    /\ root_path[1] # root_path[2]
    /\ Len(nodes[1]) = 2 /\ Len(nodes[2]) = 2
    /\ ~run_validation(nodes[1]).success
    /\ result.op = "run_validation" /\ result.inst = 2 /\ result.value.success

\* C14: a validation report says success exactly when it lists no violation of
\* severity Critical, which is exactly when neither the cycle rule nor the
\* layered-policy rule reports anything on the graph; the list holds each
\* rule's violations under that rule's name and severity
C14_Verdict ==
    Validated =>
        LET summary == get_graph_summary(nodes[result.inst])
            cyc == NoCyclicImports_validate(summary)
            lay == LayeredArchitectureViolation_validate(summary)
            vs == Report.violations
        IN  /\ Report.success <=> (\A k \in 1..Len(vs) : vs[k].severity # "Critical")
            /\ Report.success <=> (cyc = <<>> /\ lay = <<>>)
            /\ Len(vs) = Len(cyc) + Len(lay)
            /\ \A k \in 1..Len(vs) :
                   /\ vs[k].severity = "Critical"
                   /\ vs[k].rule \in Rules
                   /\ vs[k].rule = "No Cycles" <=> vs[k].message.kind = "Cyclic dependency detected"
                   /\ vs[k].rule = "No Cycles" => vs[k].message \in Range(cyc)
                   /\ vs[k].rule = "Layered Policy" => vs[k].message \in Range(lay)

\* a failing report that lists a cycle and a layer violation
C14_Witness ==
    /\ Validated
    /\ ~Report.success
    /\ \E k \in 1..Len(Report.violations) : Report.violations[k].rule = "No Cycles"
    /\ \E k \in 1..Len(Report.violations) : Report.violations[k].rule = "Layered Policy"

\* the number of callers in the chain of the tree under RootR
ChainLength == Cardinality(fs[RootR].files) - 1

Min(a, b) == IF a < b THEN a ELSE b

\* the entry of caller k of the chain
ChainEntry(k) ==
    [ name |-> ChainModule[k] \o DOT \o ChainFunc[k],
      depth |-> k,
      file |-> RelativeStr(PathOf(RootR, FlatFile(k))) ]

\* C15: on a plain call chain f <- s1 <- ... <- sn, whatever order the modules
\* are enumerated in, get_impact_scope(f, d) is exactly the entries of
\* s1 .. s(min(d, n)) in that order, s(k) carrying depth k
C15_CallChainImpact ==
    (result.op = "get_impact_scope" /\ built[result.inst]) =>
        result.value = [k \in 1..Min(result.max_depth, ChainLength) |-> ChainEntry(k)]

\* depth 2 on a chain of three callers: the direct caller and its caller
C15_Witness ==
    /\ result.op = "get_impact_scope" /\ built[result.inst]
    /\ result.target_symbol = S_f
    /\ result.max_depth = 2
    /\ ChainLength = 3
    /\ Len(result.value) = 2
    /\ result.value[2].depth = 2
    /\ nodes[result.inst][1].key = ChainModule[3]

\* C16: the relationships of a summary hold at most one record per
\* (from, to) pair, and the layered-policy rule reports a violating import
\* edge exactly once
C16_DeduplicatedRelationships ==
    \A e \in Inst : built[e] =>
        LET summary == get_graph_summary(nodes[e])
            rels == summary.relationships
            lay == LayeredArchitectureViolation_validate(summary)
        IN  /\ \A j, k \in 1..Len(rels) :
                   (rels[j].from = rels[k].from /\ rels[j].to = rels[k].to) => j = k
            /\ \A j, k \in 1..Len(lay) :
                   (lay[j].from_mod = lay[k].from_mod /\ lay[j].to_mod = lay[k].to_mod) => j = k

\* the tree with every failed version-control call replaced by one that succeeds
GitHealed(fsys) ==
    [r \in DOMAIN fsys |->
        [fsys[r] EXCEPT !.files = {[f EXCEPT !.git = IF @ < 0 THEN MaxCommits ELSE @] : f \in fsys[r].files}]]

GitFails(file_path) == \E f \in Open(fs, file_path) : f.git < 0

\* C17: a node whose version-control call fails (cannot start, non-zero exit,
\* output that is no number) has churn 1, analyze_project returns normally,
\* and apart from that churn every metric of every node is what the build of
\* the same tree with the call succeeding gives
C17_ChurnDegrades ==
    /\ result.op = "analyze_project" => result.outcome = "returned"
    /\ \A e \in Inst : built[e] =>
          \E listing \in rglob(fs, root_path[e]) :
             LET healed == analyze_project(root_path[e], <<>>, GitHealed(fs), listing)
             IN  /\ Len(healed) = Len(nodes[e])
                 /\ \A k \in 1..Len(nodes[e]) :
                        IF GitFails(nodes[e][k].file_path)
                        THEN /\ nodes[e][k].metrics.churn = 1
                             /\ [nodes[e][k] EXCEPT !.metrics.churn = MaxCommits] = healed[k]
                        ELSE nodes[e][k] = healed[k]

\* a built graph with an import edge in which one file's call cannot start,
\* the other's exits non-zero or prints no number
C17_Witness ==
    /\ built[1]
    /\ Len(nodes[1]) = 2
    /\ \E f \in fs[RootR].files : f.git = -1
    /\ \E f \in fs[RootR].files : f.git \in {-2, -3}
    /\ \E k \in 1..2 : nodes[1][k].metrics.fan_in = 1 /\ nodes[1][k].metrics.churn = 1
    /\ result.op = "get_symbol_metrics" /\ result.value.churn = 1

\* node declares a class, a function, a Class.method or a method called symbol
Declares(node, symbol) ==
    \/ HasKey(node.classes, symbol)
    \/ \E j \in 1..Len(node.functions) :
          node.functions[j].key = symbol \/ node.functions[j].name = symbol

\* symbol is part of a module id, letter case aside
FuzzyModule(ns, symbol) == \E i \in 1..Len(ns) : Contains(Lower(ns[i].key), Lower(symbol))

SymbolAsked == result.op = "get_symbol_metrics" /\ built[result.inst]

\* C18: get_symbol_metrics returns, and what it returns is the 'Symbol not
\* found in graph' record exactly when the symbol is no module id, no class,
\* function or method name of any module, and no part of a module id
C18_NoMatch ==
    SymbolAsked =>
        LET ns == nodes[result.inst]
        IN  /\ result.outcome = "returned"
            /\ result.value = NotFound <=>
                   /\ ~HasKey(ns, result.symbol)
                   /\ \A i \in 1..Len(ns) : ~Declares(ns[i], result.symbol)
                   /\ ~FuzzyModule(ns, result.symbol)

\* C19: a symbol equal to a module id gets that module's metrics; otherwise a
\* symbol that some module declares as a class, function or method gets the
\* metrics of a module that declares it
C19_ExactBeforeFuzzy ==
    SymbolAsked =>
        LET ns == nodes[result.inst]
        IN  IF HasKey(ns, result.symbol)
            THEN result.value = SymbolRecord(DictGet(ns, result.symbol),
                                             Len(DictGet(ns, result.symbol).functions))
            ELSE (\E i \in 1..Len(ns) : Declares(ns[i], result.symbol)) =>
                     /\ result.value # NotFound
                     /\ Declares(DictGet(ns, result.value.module), result.symbol)

\* the entries of an impact list that come from calls, not from imports
CallDerived(impacted) == SelectSeq(impacted, LAMBDA entry : ~StartsWith(entry.name, ModuleImportPrefix))

\* the trailing segment of a dotted name
Bare(symbol) == Split(symbol, ".")[Len(Split(symbol, "."))]

\* C20: the call-derived entries returned for a target are those returned for
\* its bare trailing segment with the same bound
C20_TargetNormalisation ==
    (result.op = "get_impact_scope" /\ built[result.inst]) =>
        CallDerived(result.value)
          = CallDerived(get_impact_scope(nodes[result.inst], Bare(result.target_symbol), result.max_depth))

ImpactAsked == result.op = "get_impact_scope" /\ built[result.inst]

\* the search keys an entry of the given depth may have been found under: the
\* target, or the name of an entry recorded one level shallower
KeysAbove(impacted, target_symbol, depth) ==
    IF depth = 1 THEN {target_symbol}
    ELSE {impacted[m].name : m \in {n \in 1..Len(impacted) : impacted[n].depth = depth - 1}}

\* entry names a declared symbol one of whose calls matches one of the keys
CallWitness(ns, entry, keys) ==
    \E i \in 1..Len(ns) : \E j \in 1..Len(ns[i].functions) :
        /\ entry.name = ns[i].key \o DOT \o ns[i].functions[j].key
        /\ \E c \in Range(ns[i].functions[j].calls) : \E k \in keys :
              k = c \/ EndsWith(k, DOT \o c) \/ EndsWith(c, DOT \o k)

\* entry names a module one of whose import strings matches the target
ImportWitness(ns, entry, target_symbol) ==
    \E i \in 1..Len(ns) :
        /\ entry.name = ModuleImportPrefix \o ns[i].key
        /\ \E imp \in Range(ns[i].imports) :
              target_symbol = imp \/ StartsWith(target_symbol, imp \o DOT)

\* C21: every entry of an impact list is a declared symbol with a call that
\* matches the target or the name of an entry recorded one level shallower,
\* or a 'Module Import' entry of a module with an import matching the target
C21_ImpactWitness ==
    ImpactAsked =>
        \A n \in 1..Len(result.value) :
            LET entry == result.value[n]
            IN  \/ CallWitness(nodes[result.inst], entry,
                               KeysAbove(result.value, result.target_symbol, entry.depth))
                \/ ImportWitness(nodes[result.inst], entry, result.target_symbol)

\* C22: no impact list holds two entries with the same name
C22_ImpactDeduplicated ==
    ImpactAsked =>
        \A m, n \in 1..Len(result.value) : result.value[m].name = result.value[n].name => m = n

\* the qualified names of the symbols with a call matching one of the keys
Callers(ns, keys) ==
    UNION { { ns[i].key \o DOT \o ns[i].functions[j].key :
                j \in {m \in 1..Len(ns[i].functions) :
                          \E c \in Range(ns[i].functions[m].calls) : \E k \in keys :
                              k = c \/ EndsWith(k, DOT \o c) \/ EndsWith(c, DOT \o k)} } :
            i \in 1..Len(ns) }

\* the symbols at the end of a chain of k matching calls from the target
RECURSIVE ChainEnds(_, _, _)
ChainEnds(ns, target_symbol, k) ==
    IF k = 0 THEN {target_symbol} ELSE Callers(ns, ChainEnds(ns, target_symbol, k - 1))

\* C23: every entry of get_impact_scope(x, d) has a depth in 1..d, a
\* call-derived entry of depth k ends a chain of k matching calls from the
\* target, and the result for d = 0 is empty
C23_DepthBound ==
    ImpactAsked =>
        /\ \A n \in 1..Len(result.value) :
               /\ 1 <= result.value[n].depth
               /\ result.value[n].depth <= result.max_depth
        /\ \A n \in 1..Len(CallDerived(result.value)) :
               CallDerived(result.value)[n].name
                 \in ChainEnds(nodes[result.inst], result.target_symbol, CallDerived(result.value)[n].depth)
        /\ result.max_depth = 0 => result.value = <<>>

\* what a from-import of the given level and module records in the module id
Resolved(id, item) ==
    IF item.level = 0 THEN item.module
    ELSE LET segments == Split(id, ".")
             kept == [k \in 1..Max(Len(segments) - item.level, 0) |-> segments[k]]
         IN  Join(IF item.module # <<>> THEN Append(kept, item.module) ELSE kept, DOT)

PathRules ==
    << [tag |-> "Infrastructure", tokens |-> {TokInfrastructure, TokPersistence, TokCaching}],
       [tag |-> "Core", tokens |-> {TokCore, TokOrchestrator}],
       [tag |-> "Interface", tokens |-> {TokApi, TokInterface}],
       [tag |-> "Data", tokens |-> {TokModel, TokData}],
       [tag |-> "Test", tokens |-> {TokTest}] >>

\* the path rules the node's lower-cased path satisfies
PathRulesMet(node) ==
    {r \in 1..Len(PathRules) :
        \E tok \in PathRules[r].tokens : Contains(Lower(PathStr(node.file_path)), tok)}

\* C25: every node of a built graph carries the tag of the first path rule
\* its lower-cased path satisfies; with none satisfied, Abstractions when a
\* declared class has 'Base' in its name and Internal otherwise; never Unknown
C25_OwnershipPriority ==
    \A e \in Inst : built[e] =>
        \A n \in 1..Len(nodes[e]) :
            LET node == nodes[e][n]
                met == PathRulesMet(node)
            IN  /\ node.ownership # "Unknown"
                /\ node.ownership =
                      IF met # {} THEN PathRules[First(met)].tag
                      ELSE IF \E c \in Range(Keys(node.classes)) : Contains(c, TokBase)
                           THEN "Abstractions"
                           ELSE "Internal"

\* a path satisfying the Core and the Interface rule, in a file that also
\* declares a class with 'Base' in its name, is tagged Core
C25_Witness ==
    /\ built[1]
    /\ \E n \in 1..Len(nodes[1]) :
          /\ nodes[1][n].file_path.dirs = <<S_core>>
          /\ HasKey(nodes[1][n].classes, S_x \o S_Base)
          /\ Cardinality(PathRulesMet(nodes[1][n])) = 2
          /\ nodes[1][n].ownership = "Core"

\* C26: a source file under the root is a node exactly when no directory on
\* its path below the root has an ignored name, whatever the root and the
\* directories above it are called
C26_IgnoredDirectories == \A e \in Inst : built[e] => NodesMatchTree(e)

\* C29: two engines on the same tree at different root locations give every
\* module the same id and the same ownership tag
C29_RootIndependence ==
    (built[1] /\ built[2] /\ fs[root_path[1]].files = fs[root_path[2]].files) =>
        {[id |-> nodes[1][n].key, ownership |-> nodes[1][n].ownership] : n \in 1..Len(nodes[1])}
          = {[id |-> nodes[2][n].key, ownership |-> nodes[2][n].ownership] : n \in 1..Len(nodes[2])}

\* C27: on every import graph, cycles and self-imports included, each node's
\* dependency depth is the one its own traversal from an empty visited set
\* gives on the finished graph, whatever was computed before it, and lies
\* between 0 and the number of nodes
C27_DepthTruncatesCycles ==
    \A e \in Inst : built[e] =>
        \A n \in 1..Len(nodes[e]) :
            /\ nodes[e][n].metrics.dependency_depth = _get_depth(nodes[e], nodes[e][n].key, {}).d
            /\ 0 <= nodes[e][n].metrics.dependency_depth
            /\ nodes[e][n].metrics.dependency_depth <= Len(nodes[e])

\* an import cycle through three modules: every one of them has depth 3
C27_Witness ==
    /\ built[1]
    /\ Len(nodes[1]) = 3
    /\ \A n \in 1..3 : Len(nodes[1][n].imports) = 1 /\ nodes[1][n].imports[1] # nodes[1][n].key
    /\ HasClosedWalk(nodes[1])
    /\ \A n \in 1..3 : nodes[1][n].metrics.dependency_depth = 3
    /\ result.op = "get_symbol_metrics" /\ result.value.depth = 3

\* the cycle violations on display, from the rule itself or from a report
CycleReports ==
    IF result.op = "validate" /\ result.rule = "No Cycles" THEN result.value
    ELSE IF Validated
    THEN [k \in 1..Len(SelectSeq(Report.violations, LAMBDA v : v.rule = "No Cycles")) |->
             SelectSeq(Report.violations, LAMBDA v : v.rule = "No Cycles")[k].message]
    ELSE <<>>

\* the modules of S reached from the modules X by k or fewer further edges of
\* rels that stay inside S
RECURSIVE Within(_, _, _, _)
Within(rels, S, X, k) ==
    IF k = 0 THEN X
    ELSE Within(rels, S,
                X \cup {b \in S : \E a \in X : \E r \in Range(rels) : r.from = a /\ r.to = b},
                k - 1)

\* module m reaches itself through modules of S
OnClosedWalk(rels, S, m) ==
    m \in Within(rels, S, {b \in S : \E r \in Range(rels) : r.from = m /\ r.to = b}, Cardinality(S))

\* C28: every module of a reported cycle reaches itself through reported
\* modules along import edges, and there are no more reports than modules
\* with an outgoing edge
C28_ReportedCyclesClosed ==
    (result.op \in {"validate", "run_validation"} /\ built[result.inst]) =>
        LET rels == get_graph_summary(nodes[result.inst]).relationships
        IN  /\ \A k \in 1..Len(CycleReports) :
                   \A m \in CycleReports[k].cycle : OnClosedWalk(rels, CycleReports[k].cycle, m)
            /\ Len(CycleReports) <= Cardinality({r.from : r \in Range(rels)})

\* a response after which run_pipeline gives up: the agent raised or returned
\* nothing usable, or the navigator reported that the resolved path does not exist
Stops(response) ==
    \/ ~response.success
    \/ /\ response.agent_name = "PathNavigator"
       /\ Validates("PathNavigator", response.data)
       /\ ~response.data.exists_hint

\* C30: a run calls the agents in the order PathNavigator, Discovery,
\* ContextBuilder, GapAnalyzer, TicketGenerator, Planner, AuditorVerifier; the
\* history holds one response per agent called, in the order of the calls; an
\* agent that raised or returned None, or a resolved path that does not exist,
\* is the last thing the run did, and the run returned an error record; a
\* report with 'tasks' and 'performance' comes only from a finished run whose
\* seven agents all succeeded, and its resolvedPath is the navigator's
C30_PipelineOrdering ==
    pc # "idle" =>
        LET history == state.history
            n == Len(history)
        IN  /\ n = Len(agent_calls)
            /\ n <= Len(Agents)
            /\ \A k \in 1..n : agent_calls[k] = Agents[k]
            /\ \A k \in 1..n : history[k].agent_name = agent_calls[k]
            /\ \A k \in 1..n :
                   Stops(history[k]) =>
                       /\ k = n
                       /\ pc = "done"
                       /\ DOMAIN report = {"error"}
            /\ "tasks" \in DOMAIN report =>
                   /\ pc = "done"
                   /\ n = Len(Agents)
                   /\ \A k \in 1..n : history[k].success
                   /\ "performance" \in DOMAIN report
                   /\ report.performance.resolvedPath = history[1].data.resolved_path
                   /\ report.performance.agentCount = Len(Agents)

\* the third agent returned None after two agents had succeeded, and the run
\* stopped there with the context builder's error record
C30_Witness ==
    /\ pc = "done"
    /\ Len(state.history) = 3
    /\ ~state.history[3].success
    /\ state.history[3].error = <<"Agent ", "ContextBuilder", " returned None.">>
    /\ agent_calls = <<"PathNavigator", "Discovery", "ContextBuilder">>
    /\ report = [error |-> <<"Context building failed. Orchestration stopped.">>]

\* a run that ended with the full report
C30_ReportReached ==
    /\ pc = "done"
    /\ "tasks" \in DOMAIN report
    /\ Len(report.tasks) = 1

====
